---- MODULE Spec2Model ----
(***************************************************************************)
(* Model of the notes feature front end: the note search service           *)
(* (NotePostSearchService), the note home page component                   *)
(* (NoteHomePageComponent) and the backend gateway they talk to.           *)
(*                                                                         *)
(* JavaScript values that are not numbers are encoded as negative          *)
(* integers so that a field keeps one type: Null is null, Undef is         *)
(* undefined (a field that was never assigned) and NaN is NaN.             *)
(***************************************************************************)
EXTENDS Integers, Sequences, FiniteSets, Bags, TLC

\* ------------------------------------------------------------------ bounds
\* Number of published notes the backend may hold.
MaxNotes == 7
\* Largest page number the paginator is asked for.
MaxPage == 3
\* Largest number of HTTP requests in flight at the same time.
MaxOutstanding == 2
\* Page size of the listing (ten cards in the browser test of the listing),
\* scaled down; it stays larger than the page size of the search results.
MAX_NUM_CARDS_TO_DISPLAY_ON_NOTE_HOMEPAGE == 3

\* Longest title a note is given.
MaxTitleLen == 67

\* Largest number of requests of the note editor in flight.
MaxEditorRequests == 1

\* --------------------------------------------------------------- constants
\* AppConstants.MIN_CHARS_IN_NOTE_TITLE and MAX_CHARS_IN_NOTE_TITLE, as the
\* messages of validate() print them.
MIN_CHARS_IN_NOTE_TITLE == 5
MAX_CHARS_IN_NOTE_TITLE == 65
\* Page size of the search results page (the second page of the search
\* results starts at note 3 in the component's unit test).
MAX_NUM_CARDS_TO_DISPLAY_ON_NOTE_HOMEPAGE_SEARCH == 2

\* ------------------------------------------------------- JavaScript values
Null == -1
Undef == -2
NaN == -3

\* Truthiness of a number | null | undefined, as in `if (x)`.
Truthy(x) == x > 0

\* Math.min(a, b) where b may be undefined or NaN.
MathMin(a, b) == IF b < 0 THEN NaN ELSE IF a < b THEN a ELSE b

\* Array.prototype.slice(start, end): an undefined end means the length,
\* a NaN end converts to 0, an end beyond the length is clipped.
Slice(arr, start, end) ==
  LET e == IF end = Undef THEN Len(arr)
           ELSE IF end < 0 THEN 0
           ELSE IF end > Len(arr) THEN Len(arr) ELSE end
  IN SubSeq(arr, start + 1, e)

\* ------------------------------------------------------------------ backend
\* The search strings the user types into the search bar: "a" and "b" match
\* some notes, one of them both; "c" matches none.
Queries == {"a", "b", "c"}
\* The values of the q parameter the page is opened with; '' matches every
\* note.
UrlQueries == Queries \cup {""}
\* The text sent for a query that was never set (encodeURIComponent of
\* undefined).
UndefinedQuery == "undefined"

VARIABLES
  numPublished,   \* backend: number of published notes, ids 1..numPublished
  svc,            \* NotePostSearchService fields
  cmp,            \* NoteHomePageComponent fields
  requests,       \* bag of HTTP requests in flight
  url,            \* window location: path and q parameter
  loader,         \* LoaderService: is the loading screen shown
  initialized,    \* has ngOnInit run
  lastEmitted,    \* searchQueryChanged: the value distinctUntilChanged saw last
  ev,             \* what the last step did (calls, callbacks, warnings)
  hist,           \* history of the search service since the page was loaded
  note,           \* a NoteData object and what validate() returned last
  noteEd,         \* NoteEditorComponent fields
  changeDict,     \* NoteUpdateService.changeDict
  noteStore,      \* backend: the notes of the author, by id
  edRequests,     \* requests of the note editor in flight
  origin,         \* per entry of the change dict: the note it was set on,
                  \* and whether it was sent or saved since
  edEv,           \* what the last step of the note editor did
  noteData,       \* NotesPageComponent.noteData
  tile,           \* the notes tiles: confirmation modal, requests in flight
  pageEv,         \* what the last step of the notes page did
  win,            \* window of the notes page: location.hash, hashchange
                  \* events that are due
  nps,            \* NotesPageService fields
  delRequests,    \* delete requests of NotesPageService in flight
  npsEv,          \* what the last step of NotesPageService did
  admin,          \* NoteAdminPageComponent: statusMessage and formData
  taskRunning,    \* AdminTaskManagerService: is a task running
  adminRequests,  \* requests of the note admin page in flight
  adminEv         \* what the last step of the note admin page did

\* The variables of the note home page.
homeVars == <<numPublished, svc, cmp, requests, url, loader, initialized,
              lastEmitted, ev, hist>>

\* The variables of the note editor.
editorVars == <<noteEd, changeDict, noteStore, edRequests, origin, edEv>>

\* The variables of the notes page.
pageVars == <<noteData, tile, pageEv>>

\* The variables of NotesPageService.
tabVars == <<win, nps, delRequests, npsEv>>

\* The variables of the note admin page.
adminVars == <<admin, taskRunning, adminRequests, adminEv>>

vars == <<homeVars, note, editorVars, pageVars, tabVars, adminVars>>

\* The variables that belong to other pages than the note home page.
notHomeVars == <<note, editorVars, pageVars, tabVars, adminVars>>

\* The variables that do not belong to a NoteData object.
notNoteVars == <<homeVars, editorVars, pageVars, tabVars, adminVars>>

\* The variables that do not belong to the note editor.
notEditorVars == <<homeVars, note, pageVars, tabVars, adminVars>>

\* The variables that do not belong to the notes page.
notPageVars == <<homeVars, note, editorVars, tabVars, adminVars>>

\* The variables that do not belong to NotesPageService.
notTabVars == <<homeVars, note, editorVars, pageVars, adminVars>>

\* The variables that do not belong to the note admin page.
notAdminVars == <<homeVars, note, editorVars, pageVars, tabVars>>

\* The backend's listing of published notes, in order.
Listing(n) == [i \in 1..n |-> i]

\* Does note id match the search string q.
Matches(q, id) ==
  CASE q = "" -> TRUE
    [] q = "a" -> id <= 5
    [] q = "b" -> id \in {3, 4}
    [] OTHER -> FALSE

\* All results of a search string, in the backend's order.
SearchResults(n, q) == SelectSeq(Listing(n), LAMBDA id: Matches(q, id))

\* GET <list-endpoint>?offset=<int>: a page of the listing and the total.
fetchNoteHomePageDataAsync(n, offset) ==
  [numOfPublishedNotes |-> n,
   noteSummaryDicts |->
     Slice(Listing(n), offset,
           offset + MAX_NUM_CARDS_TO_DISPLAY_ON_NOTE_HOMEPAGE)]

\* GET <search-endpoint>?q=<query>[&offset=<int>]: a page of results and
\* the offset of the next page, null when there is none.
fetchNoteSearchResultAsync(n, q, offset) ==
  LET all == SearchResults(n, q)
      next == offset + MAX_NUM_CARDS_TO_DISPLAY_ON_NOTE_HOMEPAGE_SEARCH
  IN [searchOffset |-> IF next < Len(all) THEN next ELSE Null,
      noteSummariesList |-> Slice(all, offset, next)]

\* ---------------------------------------------------------------- NoteData
\* A title is known by its length and by whether it matches
\* AppConstants.VALID_NOTE_TITLE_REGEX; the empty title has length 0.
Titles ==
  {[len |-> 0, allowedChars |-> TRUE]}
    \cup [len : 1..MaxTitleLen, allowedChars : BOOLEAN]

\* Content is empty or not.
Contents == {"", "<p>content</p>"}

TITLE_EMPTY == "Note title should not be empty."
TITLE_INVALID_CHARS == "Note title contains invalid characters."
TITLE_TOO_SHORT == "Note title should not be less than 5 characters."
TITLE_TOO_LONG == "Note title should not be more than 65 characters."
CONTENT_EMPTY == "Note content should not be empty."

\* validTitleRegex.test(this._title)
validTitleRegexTest(title) == title.allowedChars

\* Faulty variant: the length of the title is not checked.
validateWithoutLength(n) ==
  (IF n._title.len = 0 THEN <<TITLE_EMPTY>>
   ELSE IF ~validTitleRegexTest(n._title) THEN <<TITLE_INVALID_CHARS>>
   ELSE <<>>)
  \o (IF n._content = "" THEN <<CONTENT_EMPTY>> ELSE <<>>)

\* Faulty variant: the content is checked before the title.
validateContentFirst(n) ==
  (IF n._content = "" THEN <<CONTENT_EMPTY>> ELSE <<>>)
  \o (IF n._title.len = 0 THEN <<TITLE_EMPTY>>
      ELSE IF ~validTitleRegexTest(n._title) THEN <<TITLE_INVALID_CHARS>>
      ELSE IF n._title.len < MIN_CHARS_IN_NOTE_TITLE THEN <<TITLE_TOO_SHORT>>
      ELSE IF n._title.len > MAX_CHARS_IN_NOTE_TITLE THEN <<TITLE_TOO_LONG>>
      ELSE <<>>)

\* NoteData.validate(): the list of issues.
validate(n) ==
  (IF n._title.len = 0 THEN <<TITLE_EMPTY>>
   ELSE IF ~validTitleRegexTest(n._title) THEN <<TITLE_INVALID_CHARS>>
   ELSE IF n._title.len < MIN_CHARS_IN_NOTE_TITLE THEN <<TITLE_TOO_SHORT>>
   ELSE IF n._title.len > MAX_CHARS_IN_NOTE_TITLE THEN <<TITLE_TOO_LONG>>
   ELSE <<>>)
  \o (IF n._content = "" THEN <<CONTENT_EMPTY>> ELSE <<>>)

TITLE_EXCEEDS == "Note title should not exceed 65 characters."

\* The largest maxTags handed to prepublishValidate.
MaxTags == 2

\* prepublishValidate without the check of the content (faulty variant).
prepublishValidateTitleOnly(n, maxTags) ==
  IF n._title.len = 0 THEN <<TITLE_EMPTY>>
  ELSE IF ~validTitleRegexTest(n._title) THEN <<TITLE_INVALID_CHARS>>
  ELSE IF n._title.len > MAX_CHARS_IN_NOTE_TITLE THEN <<TITLE_EXCEEDS>>
  ELSE IF n._title.len < MIN_CHARS_IN_NOTE_TITLE THEN <<TITLE_TOO_SHORT>>
  ELSE <<>>

\* prepublishValidate(maxTags); maxTags is not looked at.
prepublishValidate(n, maxTags) ==
  (IF n._title.len = 0 THEN <<TITLE_EMPTY>>
   ELSE IF ~validTitleRegexTest(n._title) THEN <<TITLE_INVALID_CHARS>>
   ELSE IF n._title.len > MAX_CHARS_IN_NOTE_TITLE THEN <<TITLE_EXCEEDS>>
   ELSE IF n._title.len < MIN_CHARS_IN_NOTE_TITLE THEN <<TITLE_TOO_SHORT>>
   ELSE <<>>)
  \o (IF n._content = "" THEN <<CONTENT_EMPTY>> ELSE <<>>)

\* A NoteData object on which neither validate() nor prepublishValidate()
\* was called yet.
NoteData(title, content) ==
  [_title |-> title, _content |-> content, validated |-> FALSE,
   issues |-> <<>>, prepublishValidated |-> FALSE, maxTags |-> 0,
   prepublishIssues |-> <<>>]

\* The note while another page is being looked at.
NoteIdle == NoteData([len |-> 0, allowedChars |-> TRUE], "")

\* ------------------------------------- NoteUpdateService, note editor
\* The notes of the author.
NoteIds == {1, 2}

\* The titles and contents typed into the editor.
EditorTitles ==
  {[len |-> 4, allowedChars |-> TRUE], [len |-> 5, allowedChars |-> TRUE]}

UndefinedContent == "<undefined>"

\* A change dict is a function from the fields it holds to their values.
EmptyDict == [f \in {} |-> f]

Put(d, f, v) == [g \in DOMAIN d \cup {f} |-> IF g = f THEN v ELSE d[g]]

\* setNoteTitle / setNoteContent: the field of the note and the entry of
\* the change dict are set.
setNoteTitle(d, n, title) ==
  [noteData |-> [n EXCEPT !._title = title],
   changeDict |-> Put(d, "title", title)]

setNoteContent(d, n, content) ==
  [noteData |-> [n EXCEPT !._content = content],
   changeDict |-> Put(d, "content", content)]

getNoteChangeDict(d) == d

\* The component before ngOnInit, and after it was destroyed. The flags
\* that only say which input is open (titleEditorIsActive,
\* contentEditorIsActive) are left out.
NoteEdInit ==
  [phase |-> "closed", noteId |-> 0,
   noteData |-> [_title |-> [len |-> 0, allowedChars |-> TRUE],
                 _content |-> ""],
   title |-> [len |-> 0, allowedChars |-> TRUE],
   localEditedContent |-> UndefinedContent,
   newChangesAreMade |-> FALSE, lastChangesWerePublished |-> FALSE,
   saveInProgress |-> FALSE, publishingInProgress |-> FALSE,
   modal |-> "none"]

\* The backend's notes: a draft that was just created and a published
\* note.
NoteStoreInit ==
  [id \in NoteIds |->
     IF id = 1
       THEN [title |-> [len |-> 0, allowedChars |-> TRUE], content |-> "",
             lastChangesWerePublished |-> FALSE]
       ELSE [title |-> [len |-> 5, allowedChars |-> TRUE],
             content |-> "<p>content</p>",
             lastChangesWerePublished |-> TRUE]]

NoEdEv ==
  [op |-> "none", sent |-> FALSE, noteId |-> 0, publish |-> FALSE,
   changeDict |-> EmptyDict, issues |-> <<>>, warning |-> "none"]

EdEv(op) == [NoEdEv EXCEPT !.op = op]

\* The note editor while another page is being looked at.
EditorIdle ==
  /\ noteEd = NoteEdInit
  /\ changeDict = EmptyDict
  /\ noteStore = NoteStoreInit
  /\ edRequests = {}
  /\ origin = EmptyDict
  /\ edEv = NoEdEv

\* ------------------------------------------------ notes page: the lists
\* The note summaries of the author; a number stands for one NoteSummary
\* object, so equal numbers are the same object.
Summaries == {1, 2, 3, 4}

\* How many requests of the tiles may be in flight, one of a kind a tile.
MaxTileRequests == 2

\* Array.prototype.indexOf: the first index of x, from 0, or -1.
indexOf(a, x) ==
  IF \E i \in 1..Len(a) : a[i] = x
    THEN (CHOOSE i \in 1..Len(a) :
            a[i] = x /\ \A j \in 1..(i - 1) : a[j] # x) - 1
    ELSE -1

\* a.splice(index, 1): a without the element at index (from 0).
splice(a, index) ==
  [i \in 1..(Len(a) - 1) |-> IF i <= index THEN a[i] ELSE a[i + 1]]

\* Faulty variant: the summary is added at the back of the list.
push(a, x) == Append(a, x)

\* a.unshift(x): x is put in front of a.
unshift(a, x) == <<x>> \o a

\* unpublishedNotesPost(noteSummary) on the note data d.
unpublishedNotesPost(d, noteSummary) ==
  LET summaryDicts == d.publishedNoteSummaryDicts
      index == indexOf(summaryDicts, noteSummary)
  IN  [d EXCEPT
         !.publishedNoteSummaryDicts =
            IF index > -1 THEN splice(summaryDicts, index)
                          ELSE summaryDicts,
         !.draftNoteSummaryDicts = unshift(@, noteSummary),
         !.numOfDraftNotes = @ + 1,
         !.numOfPublishedNotes = @ - 1]

\* removeNotesPost(notesPostSummary, notesPostWasPublished) on d.
removeNotesPost(d, notesPostSummary, notesPostWasPublished) ==
  LET summaryDicts == IF notesPostWasPublished
                        THEN d.publishedNoteSummaryDicts
                        ELSE d.draftNoteSummaryDicts
      index == indexOf(summaryDicts, notesPostSummary)
      rest == IF index > -1 THEN splice(summaryDicts, index)
                            ELSE summaryDicts
  IN  IF notesPostWasPublished
        THEN [d EXCEPT !.numOfPublishedNotes = @ - 1,
                       !.publishedNoteSummaryDicts = rest]
        ELSE [d EXCEPT !.numOfDraftNotes = @ - 1,
                       !.draftNoteSummaryDicts = rest]

\* The note data the backend sends when published comes before drafts.
NoteDataOf(published, drafts) ==
  [publishedNoteSummaryDicts |-> published,
   draftNoteSummaryDicts |-> drafts,
   numOfPublishedNotes |-> Len(published),
   numOfDraftNotes |-> Len(drafts)]

NoModal == [action |-> "none", s |-> 0, wasPublished |-> FALSE]

\* The tiles: the confirmation modal that is open and the summaries whose
\* tile has an unpublish request or a delete request in flight. What the
\* tiles tell NotesPageService is part of the model of that service.
TileInit == [modal |-> NoModal, unpublishing |-> {}, deleting |-> {}]

\* found: did indexOf find the summary in the list.
NoPageEv == [op |-> "none", s |-> 0, found |-> FALSE, warning |-> "none",
             deleteNotesPost |-> FALSE]

PageEv(op, s) == [NoPageEv EXCEPT !.op = op, !.s = s]

\* The notes page while another page is being looked at.
PageIdle ==
  /\ noteData = NoteDataOf(<<>>, <<>>)
  /\ tile = TileInit
  /\ pageEv = NoPageEv

\* ------------------------------------------ NotesPageService: the tabs
\* A location hash is its first path segment and the note id that follows
\* it, 0 when none does: [head |-> "#/drafts", noteId |-> 0] is '#/drafts'
\* and [head |-> "#/note_editor", noteId |-> 1] is '#/note_editor/1'.
Hash(head, noteId) == [head |-> head, noteId |-> noteId]

NoHash == Hash("", 0)

\* NotesPageConstants.NOTE_TAB_URLS.NOTE_EDITOR, '#/note_editor/<note_id>'.
NOTES_POST_EDITOR_URL_TEMPLATE == "#/note_editor"

\* The hashes a window of the notes page may be given.
Hashes ==
  {NoHash, Hash("#/published", 0), Hash("#/drafts", 0)}
    \cup {Hash(h, id) : h \in {"#/note_editor", "#/notes_post_editor"},
                        id \in NoteIds}

\* How many hashchange events may be due, and how many delete requests
\* may be in flight.
MaxPending == 2
MaxDeleteRequests == 1

\* hash.startsWith(prefix), for a prefix that is a whole first segment.
startsWith(hash, prefix) == hash.head = prefix

\* _setActiveTab(hash) on the service fields s; getNoteIdFromUrl gives
\* the note id of the location.
setActiveTab(s, hash) ==
  IF startsWith(hash, "#/notes_post_editor")
    THEN [s EXCEPT !.activeTab = "editor_tab", !.notesPostId = hash.noteId]
    ELSE [s EXCEPT !.activeTab = "main"]

\* The fields as they are declared, and after the constructor ran in a
\* window with this hash.
NpsDeclared == [activeTab |-> "main", notesPostId |-> 0]

NpsConstructed(hash) == setActiveTab(NpsDeclared, hash)

\* interpolateUrl(template, {notes_post_id: id}): the template names
\* <note_id>, for which no value is given; the call either throws or
\* gives the template with the id put in.
interpolateUrl(template, id) == {Hash("throws", 0), Hash(template, id)}

\* Faulty variant: the page is left after every successful delete.
deleteLeavesAlways(s) == TRUE

\* The success handler of deleteNotesPost goes to the main tab.
deleteLeaves(s) == s.activeTab = "editor_tab"

NoNpsEv == [op |-> "none", cause |-> "none", newHash |-> NoHash,
            alert |-> "none", navigateToMainTab |-> FALSE, threw |-> FALSE]

NpsEv(op) == [NoNpsEv EXCEPT !.op = op]

\* NotesPageService while another page is being looked at.
TabIdle ==
  /\ win = [hash |-> NoHash, pending |-> <<>>]
  /\ nps = NpsDeclared
  /\ delRequests = 0
  /\ npsEv = NoNpsEv

\* -------------------------------------------- note admin page: the forms
Usernames == {"", "username"}
NewRoles == {"null", "NOTE_EDITOR", "NOTE_ADMIN"}

\* How many requests of the note admin page may be in flight.
MaxAdminRequests == 2

\* Boolean(username)
BooleanOf(username) == username # ""

\* formData.updateRole.isValid()
updateRoleIsValid(f) ==
  IF f.newRole = "NOTE_EDITOR" THEN BooleanOf(f.username)
  ELSE IF f.newRole = "NOTE_ADMIN" THEN BooleanOf(f.username)
  ELSE FALSE

\* formData.removeEditorRole.isValid()
removeEditorRoleIsValid(f) == IF f.username = "" THEN FALSE ELSE TRUE

\* refreshFormData()
RefreshedFormData ==
  [updateRole |-> [newRole |-> "null", username |-> ""],
   removeEditorRole |-> [username |-> ""]]

\* The component after ngOnInit. A status message is the sequence of the
\* strings it is put together from.
AdminInit == [statusMessage |-> <<"">>, formData |-> RefreshedFormData]

\* Faulty variant: the forms are submitted whatever the task manager says.
isTaskRunningIgnored(running) == FALSE

\* adminTaskManagerService.isTaskRunning()
isTaskRunning(running) == running

NoAdminEv == [op |-> "none", returnedEarly |-> FALSE, issued |-> FALSE,
              startTask |-> FALSE, finishTask |-> FALSE]

AdminEv(op) == [NoAdminEv EXCEPT !.op = op]

\* The note admin page while another page is being looked at.
AdminIdle ==
  /\ admin = AdminInit
  /\ taskRunning = FALSE
  /\ adminRequests = {}
  /\ adminEv = NoAdminEv

\* ------------------------------------------------------------ step record
NoEv == [op |-> "none", issued |-> 0, warning |-> "none",
         successCallback |-> FALSE, errorCallback |-> FALSE,
         failureCallback |-> "none", nav |-> "none"]

Ev(op) == [NoEv EXCEPT !.op = op]

\* History: was executeSearchQuery ever called while a search request was
\* outstanding; has a response with a null offset been received and no
\* response of an executeSearchQuery since.
HistInit == [execOverlapped |-> FALSE, nullSeen |-> FALSE]

\* --------------------------------------------------- NotePostSearchService
SvcInit == [_lastQuery |-> UndefinedQuery, _searchOffset |-> Undef,
            _isCurrentlyFetchingResults |-> FALSE,
            numSearchesInProgress |-> 0]

hasReachedLastPage(s) == s._searchOffset = Null

\* The synchronous part of executeSearchQuery: raise the guard, count the
\* search and send the request for the first page of searchQuery.
executeSearchQuery(s, searchQuery) ==
  [svc |-> [s EXCEPT !._isCurrentlyFetchingResults = TRUE,
                     !.numSearchesInProgress = @ + 1],
   send |-> {[kind |-> "exec", query |-> searchQuery, offset |-> 0]}]

\* The success handler of executeSearchQuery, up to the emission of
\* onInitialSearchResultsLoaded.
executeSearchQuerySuccess(s, searchQuery, response) ==
  [s EXCEPT !._lastQuery = searchQuery,
            !._searchOffset = response.searchOffset,
            !.numSearchesInProgress = @ - 1,
            !._isCurrentlyFetchingResults = FALSE]

\* The error handler of executeSearchQuery.
executeSearchQueryError(s) ==
  [s EXCEPT !.numSearchesInProgress = @ - 1]

\* Faulty variant: the guard forgets the request in flight.
loadMoreDataBlockedOnlyAtLastPage(s) == hasReachedLastPage(s)

\* The guard of loadMoreData.
loadMoreDataBlocked(s) ==
  s._isCurrentlyFetchingResults \/ hasReachedLastPage(s)

\* The synchronous part of loadMoreData: either the failure callback is
\* called with hasReachedLastPage(), or the guard is raised and the next
\* page of the last query is requested.
loadMoreData(s) ==
  IF loadMoreDataBlocked(s)
  THEN [svc |-> s, send |-> {},
        failureCallback |-> IF hasReachedLastPage(s) THEN "true" ELSE "false"]
  ELSE [svc |-> [s EXCEPT !._isCurrentlyFetchingResults = TRUE],
        send |-> {[kind |-> "more", query |-> s._lastQuery,
                   offset |-> IF Truthy(s._searchOffset)
                              THEN s._searchOffset ELSE 0]},
        failureCallback |-> "none"]

\* Faulty variant: the response of loadMoreData leaves the offset alone.
loadMoreDataSuccessKeepsOffset(s, data) ==
  [s EXCEPT !._isCurrentlyFetchingResults = FALSE]

\* The success handler of loadMoreData, up to the call of successCallback.
loadMoreDataSuccess(s, data) ==
  [s EXCEPT !._searchOffset = data.searchOffset,
            !._isCurrentlyFetchingResults = FALSE]

\* loadMoreData passes no rejection handler to then(): a failed request
\* changes nothing and calls nothing.
loadMoreDataError(s) == s

\* --------------------------------------------------- NoteHomePageComponent
CmpInit == [searchQuery |-> "", noteSummaries |-> <<>>,
            noteSummariesToShow |-> <<>>, page |-> 1,
            firstPostOnPageNum |-> 1, lastPostOnPageNum |-> Undef,
            totalNotes |-> Undef, noResultsFound |-> "undefined",
            searchPageIsActive |-> FALSE, searchOffset |-> 0,
            showNoteCardsLoadingScreen |-> FALSE]

calculateFirstPostOnPageNum(c, pageNum, pageSize) ==
  [c EXCEPT !.firstPostOnPageNum = (pageNum - 1) * pageSize + 1]

\* Faulty variant: the last index is not clipped to the total.
calculateLastPostOnPageNumUnclipped(c, pageNum, pageSize) ==
  [c EXCEPT !.lastPostOnPageNum = pageNum * pageSize]

calculateLastPostOnPageNum(c, pageNum, pageSize) ==
  [c EXCEPT !.lastPostOnPageNum = MathMin(pageNum * pageSize, c.totalNotes)]

selectNoteSummariesToShow(c) ==
  [c EXCEPT !.noteSummariesToShow =
     Slice(c.noteSummaries, c.firstPostOnPageNum - 1, c.lastPostOnPageNum)]

\* The total that makes the paginator offer one more page when the search
\* offset is truthy.
SearchTotal(len, offset) == IF Truthy(offset) THEN len + 1 ELSE len

loadSearchResultsPageData(c, data) ==
  LET c1 == [c EXCEPT !.noteSummaries = @ \o data.noteSummariesList,
                      !.searchOffset = data.searchOffset]
      c2 == [c1 EXCEPT !.totalNotes =
               SearchTotal(Len(c1.noteSummaries), c1.searchOffset)]
      c3 == calculateLastPostOnPageNum(
              c2, c2.page, MAX_NUM_CARDS_TO_DISPLAY_ON_NOTE_HOMEPAGE_SEARCH)
      c4 == selectNoteSummariesToShow(c3)
  IN [c4 EXCEPT !.showNoteCardsLoadingScreen = FALSE]

\* Faulty variant: the buffer of the previous query is not emptied.
onInitialSearchResultsLoadedKeepsBuffer(c, response) ==
  LET c1 == [c EXCEPT !.page = 1, !.firstPostOnPageNum = 1]
  IN IF Len(response.noteSummariesList) > 0
     THEN loadSearchResultsPageData(
            [c1 EXCEPT !.noResultsFound = "false"], response)
     ELSE [c1 EXCEPT !.noResultsFound = "true"]

\* The subscriber of onInitialSearchResultsLoaded set up by ngOnInit.
onInitialSearchResultsLoaded(c, response) ==
  LET c1 == [c EXCEPT !.noteSummaries = <<>>, !.page = 1,
                      !.firstPostOnPageNum = 1]
  IN IF Len(response.noteSummariesList) > 0
     THEN loadSearchResultsPageData(
            [c1 EXCEPT !.noResultsFound = "false"], response)
     ELSE [c1 EXCEPT !.noResultsFound = "true"]

\* The success handler of loadInitialNoteHomePageData.
loadInitialNoteHomePageDataSuccess(c, data) ==
  IF Truthy(data.numOfPublishedNotes)
  THEN calculateLastPostOnPageNum(
         [c EXCEPT !.totalNotes = data.numOfPublishedNotes,
                   !.noResultsFound = "false",
                   !.noteSummaries = data.noteSummaryDicts,
                   !.noteSummariesToShow = data.noteSummaryDicts],
         c.page, MAX_NUM_CARDS_TO_DISPLAY_ON_NOTE_HOMEPAGE)
  ELSE [c EXCEPT !.noResultsFound = "true"]

\* The success handler of loadMoreNoteSummaries.
loadMoreNoteSummariesSuccess(c, data) ==
  LET c1 == [c EXCEPT !.noteSummaries = @ \o data.noteSummaryDicts]
      c2 == selectNoteSummariesToShow(c1)
      c3 == calculateLastPostOnPageNum(
              c2, c2.page, MAX_NUM_CARDS_TO_DISPLAY_ON_NOTE_HOMEPAGE)
  IN [c3 EXCEPT !.showNoteCardsLoadingScreen = FALSE]

\* Faulty variant: the comparison is off by one.
loadPageMustFetchOffByOne(c) == Len(c.noteSummaries) <= c.firstPostOnPageNum

\* Does loadPage have to fetch: the buffer ends before the page's first post.
loadPageMustFetch(c) == Len(c.noteSummaries) < c.firstPostOnPageNum

\* loadPage: serve the page from the buffer, or ask for more data: the
\* listing at offset firstPostOnPageNum - 1, or loadMoreData of the search
\* service, whose failure callback raises the end-of-results warning.
loadPage(c, s) ==
  IF loadPageMustFetch(c)
  THEN LET c1 == [c EXCEPT !.showNoteCardsLoadingScreen = TRUE]
       IN IF ~c.searchPageIsActive
          THEN [cmp |-> c1, svc |-> s,
                send |-> {[kind |-> "list", query |-> "",
                           offset |-> c.firstPostOnPageNum - 1]},
                failureCallback |-> "none", warning |-> "none"]
          ELSE LET m == loadMoreData(s)
               IN [cmp |-> c1, svc |-> m.svc, send |-> m.send,
                   failureCallback |-> m.failureCallback,
                   warning |-> IF m.failureCallback = "none" THEN "none"
                               ELSE "end_of_search_results"]
  ELSE [cmp |-> selectNoteSummariesToShow(c), svc |-> s, send |-> {},
        failureCallback |-> "none", warning |-> "none"]

\* The page size onPageChange computes the window with.
ActivePageSize(c) ==
  IF c.searchPageIsActive
  THEN MAX_NUM_CARDS_TO_DISPLAY_ON_NOTE_HOMEPAGE_SEARCH
  ELSE MAX_NUM_CARDS_TO_DISPLAY_ON_NOTE_HOMEPAGE

onPageChange(c, s, page) ==
  loadPage(
    calculateLastPostOnPageNum(
      calculateFirstPostOnPageNum(c, page, ActivePageSize(c)),
      page, ActivePageSize(c)),
    s)

\* The success callback onSearchQueryChangeExec passes to executeSearchQuery:
\* on the search path the new query is pushed to the history, elsewhere the
\* window is sent to the search path.
searchUrlCallback(u, searchQuery) ==
  IF u.path = "search"
  THEN [u EXCEPT !.q = searchQuery]
  ELSE [u EXCEPT !.navTo = searchQuery]

\* Faulty variant: the error callback empties the results.
searchErrorCallbackClearsResults(c) ==
  [c EXCEPT !.noteSummaries = <<>>, !.noteSummariesToShow = <<>>]

\* The error callback onSearchQueryChangeExec passes to executeSearchQuery:
\* it raises a warning and leaves the component as it is.
searchErrorCallback(c) == c

\* ----------------------------------------------------------------- actions
NoQ == "<no q>"
NoNav == "<none>"

Outstanding == BagCardinality(requests)

CanSend(reqs) == Outstanding + Cardinality(reqs) <= MaxOutstanding

Send(reqs) == requests' = requests (+) SetToBag(reqs)

Receive(r) == requests' = requests (-) SetToBag({r})

InFlight(kind) == {r \in BagToSet(requests) : r.kind = kind}

\* Number of search requests (executeSearchQuery, loadMoreData) in flight.
SearchOutstanding ==
  BagCardinality([r \in InFlight("exec") \cup InFlight("more")
                    |-> requests[r]])

\* The note home page while another page is being looked at.
HomeIdle ==
  /\ numPublished = 0
  /\ svc = SvcInit
  /\ cmp = CmpInit
  /\ requests = EmptyBag
  /\ url = [path |-> "home", q |-> NoQ, navTo |-> NoNav]
  /\ loader = FALSE
  /\ initialized = FALSE
  /\ lastEmitted = NoNav
  /\ ev = NoEv
  /\ hist = HistInit

Init ==
  /\ numPublished \in {0, MaxNotes}
  /\ svc = SvcInit
  /\ cmp = CmpInit
  /\ requests = EmptyBag
  /\ url \in [path : {"home"}, q : {NoQ}, navTo : {NoNav}]
       \cup [path : {"search"}, q : UrlQueries, navTo : {NoNav}]
  /\ loader = FALSE
  /\ initialized = FALSE
  /\ lastEmitted = NoNav
  /\ ev = NoEv
  /\ hist = HistInit
  /\ note = NoteIdle
  /\ EditorIdle
  /\ PageIdle
  /\ TabIdle
  /\ AdminIdle

\* onSearchQueryChangeExec with this.searchQuery = q: show the loading
\* screen and execute the query; executeSearchQuery calls the success
\* callback before it returns.
OnSearchQueryChangeExec(op, q, active) ==
  LET x == executeSearchQuery(svc, q)
  IN /\ CanSend(x.send)
     /\ Send(x.send)
     /\ svc' = x.svc
     /\ cmp' = [cmp EXCEPT !.searchQuery = q, !.searchPageIsActive = active]
     /\ loader' = TRUE
     /\ url' = searchUrlCallback(url, q)
     /\ ev' = [Ev(op) EXCEPT !.issued = 1, !.successCallback = TRUE,
                             !.nav = IF url.path = "search" THEN "pushState"
                                     ELSE "href"]
     /\ hist' = [hist EXCEPT !.execOverlapped = @ \/ SearchOutstanding > 0]

\* ngOnInit on a URL with a q parameter: the search page; the query of the
\* URL is executed when it differs from searchQuery.
NgOnInitSearch ==
  /\ ~initialized
  /\ url.q # NoQ
  /\ initialized' = TRUE
  /\ IF cmp.searchQuery # url.q
     THEN OnSearchQueryChangeExec("ngOnInit", url.q, TRUE)
     ELSE /\ cmp' = [cmp EXCEPT !.searchPageIsActive = TRUE]
          /\ loader' = TRUE
          /\ ev' = Ev("ngOnInit")
          /\ UNCHANGED <<svc, requests, url, hist>>
  /\ UNCHANGED <<numPublished, lastEmitted>>

\* ngOnInit on a URL without q: the listing; its first page is requested.
NgOnInitListing ==
  /\ ~initialized
  /\ url.q = NoQ
  /\ initialized' = TRUE
  /\ loader' = TRUE
  /\ Send({[kind |-> "init", query |-> "", offset |-> 0]})
  /\ ev' = [Ev("ngOnInit") EXCEPT !.issued = 1]
  /\ UNCHANGED <<numPublished, svc, cmp, url, lastEmitted, hist>>

\* The subscriber of searchQueryChanged (debounced, distinct until
\* changed): a new search string is submitted.
SearchQueryChanged(q) ==
  /\ initialized
  /\ q # lastEmitted
  /\ lastEmitted' = q
  /\ OnSearchQueryChangeExec("onSearchQueryChangeExec", q,
                             cmp.searchPageIsActive)
  /\ UNCHANGED <<numPublished, initialized>>

\* Is there a paginator to click: the page shows one, over totalNotes
\* notes, once notes were found.
PaginatorShown(c) == c.noResultsFound = "false"

\* The number of pages the paginator offers: it is computed from the total
\* collection size and the number of notes to show on a page.
PageCount(c) ==
  (c.totalNotes + ActivePageSize(c) - 1) \div ActivePageSize(c)

\* The paginator sets page to another one of its pages and calls
\* onPageChange.
OnPageChange(p) ==
  LET x == onPageChange([cmp EXCEPT !.page = p], svc, p)
  IN /\ initialized
     /\ PaginatorShown(cmp)
     /\ p # cmp.page
     /\ p <= PageCount(cmp)
     /\ CanSend(x.send)
     /\ Send(x.send)
     /\ cmp' = x.cmp
     /\ svc' = x.svc
     /\ ev' = [Ev("onPageChange") EXCEPT
                 !.issued = Cardinality(x.send),
                 !.failureCallback = x.failureCallback,
                 !.warning = x.warning]
     /\ UNCHANGED <<numPublished, url, loader, initialized, lastEmitted,
                    hist>>

\* The response of an executeSearchQuery request arrives.
ExecuteSearchQueryResponse(r) ==
  LET response == fetchNoteSearchResultAsync(numPublished, r.query, r.offset)
  IN /\ r \in InFlight("exec")
     /\ Receive(r)
     /\ svc' = executeSearchQuerySuccess(svc, r.query, response)
     /\ cmp' = onInitialSearchResultsLoaded(cmp, response)
     /\ loader' = FALSE
     /\ ev' = Ev("executeSearchQueryResponse")
     /\ hist' = [hist EXCEPT !.nullSeen = response.searchOffset = Null]
     /\ UNCHANGED <<numPublished, url, initialized, lastEmitted>>

\* The request of an executeSearchQuery fails.
ExecuteSearchQueryFailure(r) ==
  /\ r \in InFlight("exec")
  /\ Receive(r)
  /\ svc' = executeSearchQueryError(svc)
  /\ cmp' = searchErrorCallback(cmp)
  /\ ev' = [Ev("executeSearchQueryFailure") EXCEPT
              !.errorCallback = TRUE, !.warning = "unable_to_fetch_search"]
  /\ UNCHANGED <<numPublished, url, loader, initialized, lastEmitted, hist>>

\* The response of a loadMoreData request arrives.
LoadMoreDataResponse(r) ==
  LET data == fetchNoteSearchResultAsync(numPublished, r.query, r.offset)
  IN /\ r \in InFlight("more")
     /\ Receive(r)
     /\ svc' = loadMoreDataSuccess(svc, data)
     /\ cmp' = loadSearchResultsPageData(cmp, data)
     /\ loader' = FALSE
     /\ ev' = [Ev("loadMoreDataResponse") EXCEPT !.successCallback = TRUE]
     /\ hist' = [hist EXCEPT !.nullSeen = @ \/ data.searchOffset = Null]
     /\ UNCHANGED <<numPublished, url, initialized, lastEmitted>>

\* The request of a loadMoreData fails.
LoadMoreDataFailure(r) ==
  /\ r \in InFlight("more")
  /\ Receive(r)
  /\ svc' = loadMoreDataError(svc)
  /\ ev' = Ev("loadMoreDataFailure")
  /\ UNCHANGED <<numPublished, cmp, url, loader, initialized, lastEmitted,
                 hist>>

\* The first page of the listing arrives.
LoadInitialNoteHomePageDataResponse(r) ==
  /\ r \in InFlight("init")
  /\ Receive(r)
  /\ cmp' = loadInitialNoteHomePageDataSuccess(
              cmp, fetchNoteHomePageDataAsync(numPublished, r.offset))
  /\ loader' = FALSE
  /\ ev' = Ev("loadInitialNoteHomePageDataResponse")
  /\ UNCHANGED <<numPublished, svc, url, initialized, lastEmitted, hist>>

\* A further page of the listing arrives.
LoadMoreNoteSummariesResponse(r) ==
  /\ r \in InFlight("list")
  /\ Receive(r)
  /\ cmp' = loadMoreNoteSummariesSuccess(
              cmp, fetchNoteHomePageDataAsync(numPublished, r.offset))
  /\ ev' = Ev("loadMoreNoteSummariesResponse")
  /\ UNCHANGED <<numPublished, svc, url, loader, initialized, lastEmitted,
                 hist>>

\* A listing request fails: a warning is raised when the status is one of
\* the fatal error codes, nothing else changes.
ListingFailure(r, fatal) ==
  /\ r \in InFlight("init") \cup InFlight("list")
  /\ Receive(r)
  /\ ev' = [Ev("listingFailure") EXCEPT
              !.warning = IF fatal THEN "failed_to_get_home_page_data"
                          ELSE "none"]
  /\ UNCHANGED <<numPublished, svc, cmp, url, loader, initialized,
                 lastEmitted, hist>>

\* The window follows location.href to the search path: a new page with new
\* instances of the component and of the service; requests in flight are
\* abandoned.
PageReload ==
  /\ url.navTo # NoNav
  /\ url' = [path |-> "search", q |-> url.navTo, navTo |-> NoNav]
  /\ svc' = SvcInit
  /\ cmp' = CmpInit
  /\ requests' = EmptyBag
  /\ loader' = FALSE
  /\ initialized' = FALSE
  /\ lastEmitted' = NoNav
  /\ ev' = Ev("pageReload")
  /\ hist' = HistInit
  /\ UNCHANGED numPublished

Next ==
  \/ NgOnInitSearch /\ UNCHANGED notHomeVars
  \/ NgOnInitListing /\ UNCHANGED notHomeVars
  \/ \E q \in Queries : SearchQueryChanged(q) /\ UNCHANGED notHomeVars
  \/ \E p \in 1..MaxPage : OnPageChange(p) /\ UNCHANGED notHomeVars
  \/ \E r \in BagToSet(requests) :
       ExecuteSearchQueryResponse(r) /\ UNCHANGED notHomeVars
  \/ \E r \in BagToSet(requests) :
       ExecuteSearchQueryFailure(r) /\ UNCHANGED notHomeVars
  \/ \E r \in BagToSet(requests) :
       LoadMoreDataResponse(r) /\ UNCHANGED notHomeVars
  \/ \E r \in BagToSet(requests) :
       LoadMoreDataFailure(r) /\ UNCHANGED notHomeVars
  \/ \E r \in BagToSet(requests) :
       LoadInitialNoteHomePageDataResponse(r) /\ UNCHANGED notHomeVars
  \/ \E r \in BagToSet(requests) :
       LoadMoreNoteSummariesResponse(r) /\ UNCHANGED notHomeVars
  \/ \E r \in BagToSet(requests), fatal \in BOOLEAN :
       ListingFailure(r, fatal) /\ UNCHANGED notHomeVars
  \/ PageReload /\ UNCHANGED notHomeVars

Spec == Init /\ [][Next]_vars

\* Every request in flight is answered in the end, with a response or with
\* an error, and the window follows a navigation it was sent on; what the
\* user does is left open.
RequestCompletes ==
  \E r \in BagToSet(requests) :
    \/ ExecuteSearchQueryResponse(r) \/ ExecuteSearchQueryFailure(r)
    \/ LoadMoreDataResponse(r) \/ LoadMoreDataFailure(r)
    \/ LoadInitialNoteHomePageDataResponse(r)
    \/ LoadMoreNoteSummariesResponse(r)
    \/ \E fatal \in BOOLEAN : ListingFailure(r, fatal)

LiveSpec ==
  /\ Init /\ [][Next]_vars
  /\ WF_vars(RequestCompletes /\ UNCHANGED notHomeVars)
  /\ WF_vars(PageReload /\ UNCHANGED notHomeVars)

\* ------------------------------------------------- NoteData: validation
NoteInit ==
  /\ note \in {NoteData(t, c) : t \in Titles, c \in Contents}
  /\ HomeIdle
  /\ EditorIdle
  /\ PageIdle
  /\ TabIdle
  /\ AdminIdle

\* set title(title)
SetTitle(title) ==
  /\ note' = NoteData(title, note._content)
  /\ UNCHANGED notNoteVars

\* set content(content)
SetContent(content) ==
  /\ note' = NoteData(note._title, content)
  /\ UNCHANGED notNoteVars

\* validate() is called and returns its list of issues.
Validate ==
  /\ ~note.validated
  /\ note' = [note EXCEPT !.validated = TRUE, !.issues = validate(note)]
  /\ UNCHANGED notNoteVars

\* prepublishValidate(maxTags) is called and returns its list of issues.
PrepublishValidate(maxTags) ==
  /\ ~note.prepublishValidated
  /\ note' = [note EXCEPT !.prepublishValidated = TRUE,
                          !.maxTags = maxTags,
                          !.prepublishIssues =
                             prepublishValidate(note, maxTags)]
  /\ UNCHANGED notNoteVars

NoteNext ==
  \/ \E t \in Titles : SetTitle(t)
  \/ \E c \in Contents : SetContent(c)
  \/ Validate
  \/ \E maxTags \in 0..MaxTags : PrepublishValidate(maxTags)

NoteSpec == NoteInit /\ [][NoteNext]_vars

\* ------------------------------------------------------------ note editor
EditorCanSend == Cardinality(edRequests) < MaxEditorRequests

\* isPublishButtonDisabled()
isPublishButtonDisabled(c) ==
  IF c.newChangesAreMade THEN FALSE
  ELSE IF ~c.lastChangesWerePublished THEN FALSE
  ELSE TRUE

\* The PUT handler of the backend: the fields of the change dict replace
\* those of the stored note.
ApplyChangeDict(stored, d, publish) ==
  [title |-> IF "title" \in DOMAIN d THEN d["title"] ELSE stored.title,
   content |-> IF "content" \in DOMAIN d THEN d["content"]
               ELSE stored.content,
   lastChangesWerePublished |-> publish]

\* The entry of a field that was just set on note id.
SetOn(o, f, id) == Put(o, f, [note |-> id, state |-> "set"])

\* The entries of note id move from one state to another: they are sent
\* with a request, saved by its success, or not saved by its failure.
Moved(o, id, from, to) ==
  [f \in DOMAIN o |->
     IF o[f].note = id /\ o[f].state = from
       THEN [o[f] EXCEPT !.state = to] ELSE o[f]]

EditorInit ==
  /\ EditorIdle
  /\ HomeIdle
  /\ note = NoteIdle
  /\ PageIdle
  /\ TabIdle
  /\ AdminIdle

\* ngOnInit of the editor of note id: the note is requested.
NgOnInitEditor(id) ==
  /\ noteEd.phase = "closed"
  /\ EditorCanSend
  /\ noteEd' = [NoteEdInit EXCEPT !.phase = "loading", !.noteId = id]
  /\ edRequests' = edRequests \cup
       {[kind |-> "fetch", noteId |-> id, publish |-> FALSE,
         changeDict |-> EmptyDict]}
  /\ edEv' = EdEv("ngOnInit")
  /\ UNCHANGED <<changeDict, noteStore, origin>>

\* initEditor, the note arrives.
InitEditorResponse(r) ==
  LET stored == noteStore[r.noteId]
  IN /\ r \in edRequests
     /\ r.kind = "fetch"
     /\ edRequests' = edRequests \ {r}
     /\ noteEd' = [noteEd EXCEPT
          !.phase = "ready",
          !.noteData = [_title |-> stored.title, _content |-> stored.content],
          !.title = stored.title,
          !.lastChangesWerePublished = stored.lastChangesWerePublished \/ @,
          !.newChangesAreMade = FALSE]
     /\ edEv' = EdEv("initEditorResponse")
     /\ UNCHANGED <<changeDict, noteStore, origin>>

\* initEditor, the request fails: on a fatal error code a warning is
\* raised and the main tab is shown, which destroys the editor.
InitEditorFailure(r, fatal) ==
  /\ r \in edRequests
  /\ r.kind = "fetch"
  /\ edRequests' = edRequests \ {r}
  /\ noteEd' = IF fatal THEN NoteEdInit ELSE noteEd
  /\ edEv' = [EdEv("initEditorFailure") EXCEPT
               !.warning = IF fatal THEN "failed_to_get_note_data"
                           ELSE "none"]
  /\ UNCHANGED <<changeDict, noteStore, origin>>

\* The title input writes the bound field title and, when it is left,
\* calls updateLocalTitleValue().
UpdateLocalTitleValue(title) ==
  LET x == setNoteTitle(changeDict, noteEd.noteData, title)
  IN /\ noteEd.phase = "ready"
     /\ noteEd.modal = "none"
     /\ noteEd' = [noteEd EXCEPT !.title = title, !.noteData = x.noteData]
     /\ changeDict' = x.changeDict
     /\ origin' = SetOn(origin, "title", noteEd.noteId)
     /\ edEv' = EdEv("updateLocalTitleValue")
     /\ UNCHANGED <<noteStore, edRequests>>

\* The content editor reports its content (updateLocalEditedContent) and
\* the author is done with it (updateContentValue).
UpdateContentValue(content) ==
  LET x == setNoteContent(changeDict, noteEd.noteData, content)
  IN /\ noteEd.phase = "ready"
     /\ noteEd.modal = "none"
     /\ noteEd' = [noteEd EXCEPT
          !.localEditedContent = content,
          !.noteData = x.noteData,
          !.newChangesAreMade = TRUE]
     /\ changeDict' = x.changeDict
     /\ origin' = SetOn(origin, "content", noteEd.noteId)
     /\ edEv' = EdEv("updateContentValue")
     /\ UNCHANGED <<noteStore, edRequests>>

\* updateNoteData(isNotePublished): the change dict of the service is sent.
updateNoteData(c, d, isNotePublished) ==
  [kind |-> "update", noteId |-> c.noteId, publish |-> isNotePublished,
   changeDict |-> getNoteChangeDict(d)]

\* The issues saveDraft() looks at.
saveDraftIssues(n) == validate(n)

\* saveDraft()
SaveDraft ==
  LET issues == saveDraftIssues(noteEd.noteData)
      r == updateNoteData(noteEd, changeDict, FALSE)
  IN /\ noteEd.phase = "ready"
     /\ noteEd.modal = "none"
     /\ IF issues = <<>>
          THEN /\ EditorCanSend
               /\ edRequests' = edRequests \cup {r}
               /\ noteEd' = [noteEd EXCEPT !.saveInProgress = TRUE]
               /\ edEv' = [EdEv("saveDraft") EXCEPT
                    !.sent = TRUE, !.noteId = r.noteId,
                    !.changeDict = r.changeDict,
                    !.issues = validate(noteEd.noteData)]
               /\ origin' = Moved(origin, r.noteId, "set", "sent")
          ELSE /\ edRequests' = edRequests
               /\ noteEd' = [noteEd EXCEPT !.saveInProgress = FALSE]
               /\ edEv' = [EdEv("saveDraft") EXCEPT
                    !.issues = validate(noteEd.noteData),
                    !.warning = "please_fix_the_errors"]
               /\ origin' = origin
     /\ UNCHANGED <<changeDict, noteStore>>

\* publishNotePost(): the confirmation modal is opened.
PublishNotePost ==
  /\ noteEd.phase = "ready"
  /\ noteEd.modal = "none"
  /\ ~isPublishButtonDisabled(noteEd)
  /\ noteEd' = [noteEd EXCEPT !.publishingInProgress = TRUE,
                              !.modal = "publish"]
  /\ edEv' = EdEv("publishNotePost")
  /\ UNCHANGED <<changeDict, noteStore, edRequests, origin>>

\* The modal is confirmed: updateNoteData(true).
ConfirmPublish ==
  LET r == updateNoteData(noteEd, changeDict, TRUE)
  IN /\ noteEd.modal = "publish"
     /\ EditorCanSend
     /\ edRequests' = edRequests \cup {r}
     /\ noteEd' = [noteEd EXCEPT !.modal = "none"]
     /\ edEv' = [EdEv("confirmPublish") EXCEPT
          !.sent = TRUE, !.noteId = r.noteId, !.publish = TRUE,
          !.changeDict = r.changeDict,
          !.issues = validate(noteEd.noteData)]
     /\ origin' = Moved(origin, r.noteId, "set", "sent")
     /\ UNCHANGED <<changeDict, noteStore>>

\* The modal is cancelled.
CancelPublish ==
  /\ noteEd.modal = "publish"
  /\ noteEd' = [noteEd EXCEPT !.modal = "none",
                              !.publishingInProgress = FALSE]
  /\ edEv' = EdEv("cancelPublish")
  /\ UNCHANGED <<changeDict, noteStore, edRequests, origin>>

\* The update succeeds: the backend stored the changes.
UpdateNoteDataResponse(r) ==
  /\ r \in edRequests
  /\ r.kind = "update"
  /\ edRequests' = edRequests \ {r}
  /\ noteStore' = [noteStore EXCEPT
       ![r.noteId] = ApplyChangeDict(@, r.changeDict, r.publish)]
  /\ noteEd' = [noteEd EXCEPT
       !.lastChangesWerePublished = r.publish,
       !.publishingInProgress = IF r.publish THEN FALSE ELSE @,
       !.saveInProgress = IF r.publish THEN @ ELSE FALSE,
       !.newChangesAreMade = FALSE]
  /\ origin' = Moved(origin, r.noteId, "sent", "saved")
  /\ edEv' = EdEv("updateNoteDataResponse")
  /\ UNCHANGED changeDict

\* The update fails.
UpdateNoteDataFailure(r) ==
  /\ r \in edRequests
  /\ r.kind = "update"
  /\ edRequests' = edRequests \ {r}
  /\ noteEd' = [noteEd EXCEPT !.saveInProgress = FALSE,
                              !.publishingInProgress = FALSE]
  /\ edEv' = [EdEv("updateNoteDataFailure") EXCEPT
               !.warning = "failed_to_save_note"]
  /\ origin' = Moved(origin, r.noteId, "sent", "set")
  /\ UNCHANGED <<changeDict, noteStore>>

\* The author goes back to the main tab: the editor is destroyed, the
\* NoteUpdateService (provided in root) lives on.
CloseEditor ==
  /\ noteEd.phase # "closed"
  /\ noteEd.modal = "none"
  /\ edRequests = {}
  /\ noteEd' = NoteEdInit
  /\ edEv' = EdEv("closeEditor")
  /\ UNCHANGED <<changeDict, noteStore, edRequests, origin>>

EditorNext ==
  \/ \E id \in NoteIds : NgOnInitEditor(id) /\ UNCHANGED notEditorVars
  \/ \E r \in edRequests : InitEditorResponse(r) /\ UNCHANGED notEditorVars
  \/ \E r \in edRequests, fatal \in BOOLEAN :
       InitEditorFailure(r, fatal) /\ UNCHANGED notEditorVars
  \/ \E t \in EditorTitles :
       UpdateLocalTitleValue(t) /\ UNCHANGED notEditorVars
  \/ \E c \in Contents : UpdateContentValue(c) /\ UNCHANGED notEditorVars
  \/ SaveDraft /\ UNCHANGED notEditorVars
  \/ PublishNotePost /\ UNCHANGED notEditorVars
  \/ ConfirmPublish /\ UNCHANGED notEditorVars
  \/ CancelPublish /\ UNCHANGED notEditorVars
  \/ \E r \in edRequests :
       UpdateNoteDataResponse(r) /\ UNCHANGED notEditorVars
  \/ \E r \in edRequests :
       UpdateNoteDataFailure(r) /\ UNCHANGED notEditorVars
  \/ CloseEditor /\ UNCHANGED notEditorVars

EditorSpec == EditorInit /\ [][EditorNext]_vars

\* ---------------------------------------------- notes page: the handlers
\* The note data has arrived: some of the author's summaries are
\* published, the others are drafts. The summaries are numbered in the
\* order of the two lists.
PageInit ==
  /\ \E k \in 0..Cardinality(Summaries) :
       noteData = NoteDataOf([i \in 1..k |-> i],
                             [i \in 1..(Cardinality(Summaries) - k) |-> k + i])
  /\ tile = TileInit
  /\ pageEv = NoPageEv
  /\ HomeIdle
  /\ note = NoteIdle
  /\ EditorIdle
  /\ TabIdle
  /\ AdminIdle

InList(a, x) == \E i \in 1..Len(a) : a[i] = x

TileRequestsInFlight ==
  Cardinality(tile.unpublishing) + Cardinality(tile.deleting)

\* NotesTileComponent.unpublishNotesPost on the tile of a published
\* summary: the confirmation modal opens.
TileUnpublishNotesPost(s) ==
  /\ InList(noteData.publishedNoteSummaryDicts, s)
  /\ tile.modal = NoModal
  /\ tile' = [tile EXCEPT !.modal = [action |-> "unpublish", s |-> s,
                                     wasPublished |-> TRUE]]
  /\ pageEv' = PageEv("unpublishNotesPost", s)
  /\ UNCHANGED noteData

\* NotesTileComponent.deleteNotesPost on a tile of either list.
TileDeleteNotesPost(s, wasPublished) ==
  /\ InList(IF wasPublished THEN noteData.publishedNoteSummaryDicts
                            ELSE noteData.draftNoteSummaryDicts, s)
  /\ tile.modal = NoModal
  /\ tile' = [tile EXCEPT !.modal = [action |-> "delete", s |-> s,
                                     wasPublished |-> wasPublished]]
  /\ pageEv' = PageEv("deleteNotesPost", s)
  /\ UNCHANGED noteData

\* The modal is confirmed. Unpublish: the note is updated with
\* isNotePublished false and an empty change dict. Delete: the service is
\* told to delete the note (the request is sent) and deletedNotesPost is
\* emitted, on which the page runs removeNotesPost.
ModalConfirm ==
  /\ tile.modal # NoModal
  /\ LET m == tile.modal IN
       IF m.action = "unpublish"
         THEN /\ TileRequestsInFlight < MaxTileRequests
              /\ m.s \notin tile.unpublishing
              /\ tile' = [tile EXCEPT !.modal = NoModal,
                                      !.unpublishing = @ \cup {m.s}]
              /\ pageEv' = PageEv("confirmUnpublish", m.s)
              /\ UNCHANGED noteData
         ELSE /\ TileRequestsInFlight < MaxTileRequests
              /\ Cardinality(tile.deleting) < MaxDeleteRequests
              /\ m.s \notin tile.deleting
              /\ tile' = [tile EXCEPT !.modal = NoModal,
                                      !.deleting = @ \cup {m.s}]
              /\ noteData' = removeNotesPost(noteData, m.s, m.wasPublished)
              /\ pageEv' = [PageEv("removeNotesPost", m.s) EXCEPT
                              !.deleteNotesPost = TRUE,
                              !.found = indexOf(
                                 IF m.wasPublished
                                   THEN noteData.publishedNoteSummaryDicts
                                   ELSE noteData.draftNoteSummaryDicts,
                                 m.s) > -1]

\* The modal is dismissed.
ModalCancel ==
  /\ tile.modal # NoModal
  /\ tile' = [tile EXCEPT !.modal = NoModal]
  /\ pageEv' = PageEv("cancel", tile.modal.s)
  /\ UNCHANGED noteData

\* The unpublish request of the tile of s succeeds: unpublisedNotesPost
\* is emitted and the page runs unpublishedNotesPost(s).
UnpublishSuccess(s) ==
  /\ s \in tile.unpublishing
  /\ tile' = [tile EXCEPT !.unpublishing = @ \ {s}]
  /\ noteData' = unpublishedNotesPost(noteData, s)
  /\ pageEv' = [PageEv("unpublishedNotesPost", s) EXCEPT
                  !.found =
                     indexOf(noteData.publishedNoteSummaryDicts, s) > -1]

\* The unpublish request of the tile of s fails: a warning is shown.
UnpublishFailure(s) ==
  /\ s \in tile.unpublishing
  /\ tile' = [tile EXCEPT !.unpublishing = @ \ {s}]
  /\ pageEv' = [PageEv("unpublishFailure", s) EXCEPT
                  !.warning = "Failed to unpublish Notes Post."]
  /\ UNCHANGED noteData

\* The delete request for s is answered; NotesPageService adds a success
\* message or a warning, the lists are not touched.
TileDeleteSuccess(s) ==
  /\ s \in tile.deleting
  /\ tile' = [tile EXCEPT !.deleting = @ \ {s}]
  /\ pageEv' = PageEv("deleteSuccess", s)
  /\ UNCHANGED noteData

TileDeleteFailure(s) ==
  /\ s \in tile.deleting
  /\ tile' = [tile EXCEPT !.deleting = @ \ {s}]
  /\ pageEv' = [PageEv("deleteFailure", s) EXCEPT
                  !.warning = "Failed to delete notes post."]
  /\ UNCHANGED noteData

PageNext ==
  \/ \E s \in Summaries : TileUnpublishNotesPost(s) /\ UNCHANGED notPageVars
  \/ \E s \in Summaries, wasPublished \in BOOLEAN :
       TileDeleteNotesPost(s, wasPublished) /\ UNCHANGED notPageVars
  \/ ModalConfirm /\ UNCHANGED notPageVars
  \/ ModalCancel /\ UNCHANGED notPageVars
  \/ \E s \in Summaries : UnpublishSuccess(s) /\ UNCHANGED notPageVars
  \/ \E s \in Summaries : UnpublishFailure(s) /\ UNCHANGED notPageVars
  \/ \E s \in Summaries : TileDeleteSuccess(s) /\ UNCHANGED notPageVars
  \/ \E s \in Summaries : TileDeleteFailure(s) /\ UNCHANGED notPageVars

PageSpec == PageInit /\ [][PageNext]_vars

\* ---------------------------------------- NotesPageService: the handlers
\* The notes page is opened with some hash and the constructor runs.
TabInit ==
  /\ \E h \in Hashes :
       /\ win = [hash |-> h, pending |-> <<>>]
       /\ nps = NpsConstructed(h)
  /\ delRequests = 0
  /\ npsEv = NoNpsEv
  /\ HomeIdle
  /\ note = NoteIdle
  /\ EditorIdle
  /\ PageIdle
  /\ AdminIdle

\* location.hash = h: a hashchange event is due when the hash changed.
\* The event is kept with what caused it and the hash it was raised for.
SetHash(h, cause) ==
  IF h = win.hash
    THEN win' = win
    ELSE /\ Len(win.pending) < MaxPending
         /\ win' = [hash |-> h,
                    pending |-> Append(win.pending,
                                       [cause |-> cause, newHash |-> h])]

\* navigateToEditorTabWithId(notesPostId)
NavigateToEditorTabWithId(notesPostId) ==
  \E notesPostEditorUrl \in
       interpolateUrl(NOTES_POST_EDITOR_URL_TEMPLATE, notesPostId) :
    IF notesPostEditorUrl.head = "throws"
      THEN /\ npsEv' = [NpsEv("navigateToEditorTabWithId") EXCEPT
                          !.threw = TRUE]
           /\ UNCHANGED <<win, nps, delRequests>>
      ELSE /\ SetHash(notesPostEditorUrl, "navigateToEditorTabWithId")
           /\ npsEv' = NpsEv("navigateToEditorTabWithId")
           /\ UNCHANGED <<nps, delRequests>>

\* The user changes the hash: a link, the address bar, the back button.
UserChangesHash(h) ==
  /\ h # win.hash
  /\ SetHash(h, "user")
  /\ npsEv' = NpsEv("userChangesHash")
  /\ UNCHANGED <<nps, delRequests>>

\* onhashchange: the handler reads the hash the location has by now.
OnHashChange ==
  /\ win.pending # <<>>
  /\ win' = [win EXCEPT !.pending = Tail(@)]
  /\ nps' = setActiveTab(nps, win.hash)
  /\ npsEv' = [NpsEv("hashchange") EXCEPT
                 !.cause = Head(win.pending).cause,
                 !.newHash = Head(win.pending).newHash]
  /\ UNCHANGED delRequests

\* location.href = '/notes-page': the page is loaded anew, without a
\* hash; what was due or in flight in the old page is gone.
Reloaded ==
  /\ win' = [hash |-> NoHash, pending |-> <<>>]
  /\ nps' = NpsConstructed(NoHash)
  /\ delRequests' = 0

\* navigateToMainTab(), as the note editor calls it.
NavigateToMainTab ==
  /\ Reloaded
  /\ npsEv' = [NpsEv("navigateToMainTab") EXCEPT !.navigateToMainTab = TRUE]

\* deleteNotesPost() after the confirmation: from a tile, which sets
\* notesPostId first, or from the note editor.
DeleteNotesPost(fromTile, id) ==
  /\ delRequests < MaxDeleteRequests
  /\ fromTile => nps.activeTab = "main"
  /\ ~fromTile => nps.activeTab = "editor_tab" /\ id = nps.notesPostId
  /\ nps' = [nps EXCEPT !.notesPostId = id]
  /\ delRequests' = delRequests + 1
  /\ npsEv' = NpsEv("deleteNotesPost")
  /\ UNCHANGED win

\* The delete succeeded.
DeleteNotesPostSuccess ==
  /\ delRequests > 0
  /\ IF deleteLeaves(nps)
       THEN Reloaded
       ELSE /\ delRequests' = delRequests - 1
            /\ UNCHANGED <<win, nps>>
  /\ npsEv' = [NpsEv("deleteSuccess") EXCEPT
                 !.alert = "Notes Post Deleted Successfully.",
                 !.navigateToMainTab = deleteLeaves(nps)]

\* The delete failed.
DeleteNotesPostFailure ==
  /\ delRequests > 0
  /\ delRequests' = delRequests - 1
  /\ npsEv' = [NpsEv("deleteFailure") EXCEPT
                 !.alert = "Failed to delete notes post."]
  /\ UNCHANGED <<win, nps>>

TabNext ==
  \/ \E id \in NoteIds : NavigateToEditorTabWithId(id) /\ UNCHANGED notTabVars
  \/ \E h \in Hashes : UserChangesHash(h) /\ UNCHANGED notTabVars
  \/ OnHashChange /\ UNCHANGED notTabVars
  \/ NavigateToMainTab /\ UNCHANGED notTabVars
  \/ \E fromTile \in BOOLEAN, id \in NoteIds :
       DeleteNotesPost(fromTile, id) /\ UNCHANGED notTabVars
  \/ DeleteNotesPostSuccess /\ UNCHANGED notTabVars
  \/ DeleteNotesPostFailure /\ UNCHANGED notTabVars

TabSpec == TabInit /\ [][TabNext]_vars

\* ------------------------------------------ note admin page: the handlers
\* The task manager is shared with the other admin tools of the page, so
\* a task may already be running when the page is first used.
AdminPageInit ==
  /\ admin = AdminInit
  /\ taskRunning \in BOOLEAN
  /\ adminRequests = {}
  /\ adminEv = NoAdminEv
  /\ HomeIdle
  /\ note = NoteIdle
  /\ EditorIdle
  /\ PageIdle
  /\ TabIdle

AdminCanSend == Cardinality(adminRequests) < MaxAdminRequests

\* The admin fills in the update role form.
EditUpdateRole(newRole, username) ==
  /\ admin.formData.updateRole # [newRole |-> newRole, username |-> username]
  /\ admin' = [admin EXCEPT !.formData.updateRole =
                 [newRole |-> newRole, username |-> username]]
  /\ adminEv' = AdminEv("editUpdateRole")
  /\ UNCHANGED <<taskRunning, adminRequests>>

\* The admin fills in the remove editor role form.
EditRemoveEditorRole(username) ==
  /\ admin.formData.removeEditorRole.username # username
  /\ admin' = [admin EXCEPT !.formData.removeEditorRole.username = username]
  /\ adminEv' = AdminEv("editRemoveEditorRole")
  /\ UNCHANGED <<taskRunning, adminRequests>>

\* Another admin tool starts or finishes a task.
OtherToolStartsTask ==
  /\ ~taskRunning
  /\ taskRunning' = TRUE
  /\ adminEv' = AdminEv("otherStartTask")
  /\ UNCHANGED <<admin, adminRequests>>

OtherToolFinishesTask ==
  /\ taskRunning
  /\ taskRunning' = FALSE
  /\ adminEv' = AdminEv("otherFinishTask")
  /\ UNCHANGED <<admin, adminRequests>>

\* What both submit handlers do with status message msg and request r:
\* return when a task is running; else set the message, start the task,
\* send the request and finish the task before the handler returns.
Submit(op, msg, r) ==
  IF isTaskRunning(taskRunning)
    THEN /\ adminEv' = [AdminEv(op) EXCEPT !.returnedEarly = TRUE]
         /\ UNCHANGED <<admin, taskRunning, adminRequests>>
    ELSE /\ AdminCanSend
         /\ r \notin adminRequests
         /\ admin' = [admin EXCEPT !.statusMessage = msg]
         /\ adminRequests' = adminRequests \cup {r}
         /\ taskRunning' = FALSE
         /\ adminEv' = [AdminEv(op) EXCEPT !.issued = TRUE,
                          !.startTask = TRUE, !.finishTask = TRUE]

\* submitUpdateRoleForm(formData.updateRole), the button being enabled.
SubmitUpdateRoleForm ==
  LET formResponse == admin.formData.updateRole IN
  /\ updateRoleIsValid(formResponse)
  /\ Submit("submitUpdateRoleForm", <<"Updating User Role">>,
            [kind |-> "updateUserRole", newRole |-> formResponse.newRole,
             username |-> formResponse.username])

\* submitRemoveEditorRoleForm(formData.removeEditorRole)
SubmitRemoveEditorRoleForm ==
  LET formResponse == admin.formData.removeEditorRole IN
  /\ removeEditorRoleIsValid(formResponse)
  /\ Submit("submitRemoveEditorRoleForm", <<"Processing query...">>,
            [kind |-> "removeNoteEditor", newRole |-> "null",
             username |-> formResponse.username])

\* The request r succeeded: the message is set and the forms are refreshed.
AdminSuccess(r) ==
  /\ r \in adminRequests
  /\ adminRequests' = adminRequests \ {r}
  /\ admin' =
       [statusMessage |->
          IF r.kind = "updateUserRole"
            THEN <<"Role of ", r.username, " successfully updated to ",
                   r.newRole>>
            ELSE <<"Success.">>,
        formData |-> RefreshedFormData]
  /\ adminEv' = AdminEv("success")
  /\ UNCHANGED taskRunning

\* The request r failed: the message is the error.
AdminFailure(r) ==
  /\ r \in adminRequests
  /\ adminRequests' = adminRequests \ {r}
  /\ admin' = [admin EXCEPT !.statusMessage =
                 IF r.kind = "updateUserRole"
                   THEN <<"error">>
                   ELSE <<"Server error: ", "error">>]
  /\ adminEv' = AdminEv("failure")
  /\ UNCHANGED taskRunning

\* savePlatformParameters(): nothing happens while a task is running or
\* when the author does not confirm; else the message is set and the task
\* is started. No request is sent and finishTask() is not called.
SavePlatformParameters(confirmed) ==
  IF isTaskRunning(taskRunning)
    THEN /\ adminEv' = [AdminEv("savePlatformParameters") EXCEPT
                          !.returnedEarly = TRUE]
         /\ UNCHANGED <<admin, taskRunning, adminRequests>>
    ELSE IF ~confirmed
      THEN /\ adminEv' = AdminEv("savePlatformParameters")
           /\ UNCHANGED <<admin, taskRunning, adminRequests>>
      ELSE /\ admin' = [admin EXCEPT !.statusMessage = <<"Saving...">>]
           /\ taskRunning' = TRUE
           /\ adminEv' = [AdminEv("savePlatformParameters") EXCEPT
                            !.startTask = TRUE]
           /\ UNCHANGED adminRequests

AdminNext ==
  \/ \E newRole \in NewRoles, username \in Usernames :
       EditUpdateRole(newRole, username) /\ UNCHANGED notAdminVars
  \/ \E username \in Usernames :
       EditRemoveEditorRole(username) /\ UNCHANGED notAdminVars
  \/ OtherToolStartsTask /\ UNCHANGED notAdminVars
  \/ OtherToolFinishesTask /\ UNCHANGED notAdminVars
  \/ SubmitUpdateRoleForm /\ UNCHANGED notAdminVars
  \/ SubmitRemoveEditorRoleForm /\ UNCHANGED notAdminVars
  \/ \E r \in adminRequests : AdminSuccess(r) /\ UNCHANGED notAdminVars
  \/ \E r \in adminRequests : AdminFailure(r) /\ UNCHANGED notAdminVars
  \/ \E confirmed \in BOOLEAN :
       SavePlatformParameters(confirmed) /\ UNCHANGED notAdminVars

AdminSpec == AdminPageInit /\ [][AdminNext]_vars

\* Every request of the page is answered, with success or with an error.
AdminRequestCompletes ==
  \E r \in adminRequests : AdminSuccess(r) \/ AdminFailure(r)

AdminLiveSpec ==
  /\ AdminPageInit /\ [][AdminNext]_vars
  /\ WF_vars(AdminRequestCompletes /\ UNCHANGED notAdminVars)

\* ------------------------------------------------------------------ claims
SearchCompletions ==
  {"executeSearchQueryResponse", "executeSearchQueryFailure",
   "loadMoreDataResponse", "loadMoreDataFailure"}

\* The last step called loadMoreData of the search service.
CalledLoadMoreData(c, e) ==
  /\ e.op = "onPageChange"
  /\ c.searchPageIsActive
  /\ loadPageMustFetch(c)

C2_TerminalBlocksLoadMore ==
  [][(hist.nullSeen /\ CalledLoadMoreData(cmp', ev'))
       => (ev'.issued = 0 /\ ev'.failureCallback = "true")]_vars

\* C3: whenever a request of executeSearchQuery or loadMoreData completes,
\* with a response or with an error, and no other search request is
\* outstanding, _isCurrentlyFetchingResults is false.
C3_GuardIdleAfterCompletion ==
  [][(ev'.op \in SearchCompletions /\ SearchOutstanding' = 0)
       => ~svc'._isCurrentlyFetchingResults]_vars

\* C4: when the request of executeSearchQuery fails, the error callback is
\* called and noteSummaries, page, firstPostOnPageNum, lastPostOnPageNum
\* and noteSummariesToShow are left unchanged.
C4_SearchFailureKeepsBuffer ==
  [][ev'.op = "executeSearchQueryFailure"
       => /\ ev'.errorCallback
          /\ cmp'.noteSummaries = cmp.noteSummaries
          /\ cmp'.page = cmp.page
          /\ cmp'.firstPostOnPageNum = cmp.firstPostOnPageNum
          /\ cmp'.lastPostOnPageNum = cmp.lastPostOnPageNum
          /\ cmp'.noteSummariesToShow = cmp.noteSummariesToShow]_vars

\* C4 witness: an executeSearchQuery request failed while the buffer held
\* the results of an earlier load.
C4_Witness ==
  /\ ev.op = "executeSearchQueryFailure"
  /\ ev.errorCallback
  /\ Len(cmp.noteSummaries) > 0
  /\ cmp.page > 1

\* C5: when the request of loadMoreData fails, noteSummaries stays at its
\* last good value and the failure is reported to the caller: a callback is
\* called or a warning is raised.
C5_LoadMoreFailureReported ==
  [][ev'.op = "loadMoreDataFailure"
       => /\ cmp'.noteSummaries = cmp.noteSummaries
          /\ \/ ev'.errorCallback
             \/ ev'.failureCallback # "none"
             \/ ev'.warning # "none"]_vars

\* C6: when the initial results of a submitted query are loaded,
\* noteSummaries becomes exactly the items of that response and page and
\* firstPostOnPageNum become 1.
C6_InitialResultsReplaceBuffer ==
  [][\A r \in InFlight("exec") :
       (ev'.op = "executeSearchQueryResponse" /\ Receive(r))
         => /\ cmp'.noteSummaries =
                 fetchNoteSearchResultAsync(numPublished, r.query, r.offset)
                   .noteSummariesList
            /\ cmp'.page = 1
            /\ cmp'.firstPostOnPageNum = 1]_vars

\* C6 witness: the initial results of a query were loaded over a buffer
\* that held other items, on a page other than the first.
C6_Witness ==
  /\ ev.op = "executeSearchQueryResponse"
  /\ cmp.noteSummaries = <<3, 4>>
  /\ cmp.page = 1
  /\ svc._lastQuery = "b"
  /\ hist.execOverlapped

NoDuplicates(seq) ==
  \A i, j \in 1..Len(seq) : seq[i] = seq[j] => i = j

\* C7: noteSummaries never holds two entries with the same note id (the
\* backend returns each note once across the pages of a query or listing).
C7_NoDuplicateIds == NoDuplicates(cmp.noteSummaries)

\* C8 (as stated): whenever no request is pending, firstPostOnPageNum is
\* (page - 1) * pageSize + 1 and lastPostOnPageNum is
\* min(page * pageSize, totalNotes), for the page size of the active mode.
C8_WindowIndices ==
  (initialized /\ Outstanding = 0) =>
    /\ cmp.firstPostOnPageNum = (cmp.page - 1) * ActivePageSize(cmp) + 1
    /\ cmp.totalNotes # Undef
    /\ cmp.lastPostOnPageNum =
         MathMin(cmp.page * ActivePageSize(cmp), cmp.totalNotes)

\* C8 (amended): whenever no request is pending, notes were found by the
\* last load (noResultsFound is false) and the window is not on its way
\* from the listing to the search path, the indices are those of the
\* current page, the page size of the active mode and totalNotes.
C8_WindowIndicesWhenResultsShown ==
  (/\ initialized
   /\ Outstanding = 0
   /\ cmp.noResultsFound = "false"
   /\ url.navTo = NoNav) =>
    /\ cmp.firstPostOnPageNum = (cmp.page - 1) * ActivePageSize(cmp) + 1
    /\ cmp.totalNotes # Undef
    /\ cmp.lastPostOnPageNum =
         MathMin(cmp.page * ActivePageSize(cmp), cmp.totalNotes)

\* C8 witness: no request is pending on a later page whose last index is
\* clipped to the total.
C8_Witness ==
  /\ initialized
  /\ Outstanding = 0
  /\ cmp.noResultsFound = "false"
  /\ url.navTo = NoNav
  /\ cmp.page > 1
  /\ cmp.lastPostOnPageNum = cmp.totalNotes
  /\ cmp.totalNotes < cmp.page * ActivePageSize(cmp)
  /\ Len(cmp.noteSummariesToShow) > 0

\* C9: whenever no request is pending, noteSummariesToShow is the slice of
\* noteSummaries from firstPostOnPageNum - 1 up to lastPostOnPageNum, and
\* holds at most a page of items.
C9_WindowIsSlice ==
  Outstanding = 0 =>
    /\ cmp.noteSummariesToShow =
         Slice(cmp.noteSummaries, cmp.firstPostOnPageNum - 1,
               cmp.lastPostOnPageNum)
    /\ Len(cmp.noteSummariesToShow) <= ActivePageSize(cmp)

\* C10: onPageChange to a page whose first index lies within the loaded
\* buffer issues no request and raises no warning.
C10_BufferedPageNoFetch ==
  [][(ev'.op = "onPageChange"
        /\ cmp'.firstPostOnPageNum <= Len(cmp'.noteSummaries))
       => /\ ev'.issued = 0
          /\ requests' = requests
          /\ ev'.warning = "none"
          /\ ev'.failureCallback = "none"]_vars

\* C10 witness: the user went back to the first page after a later page was
\* loaded, and the page was served from the buffer.
C10_Witness ==
  /\ ev.op = "onPageChange"
  /\ cmp.page = 1
  /\ Len(cmp.noteSummaries) > ActivePageSize(cmp)
  /\ cmp.noteSummariesToShow =
       SubSeq(cmp.noteSummaries, 1, ActivePageSize(cmp))
  /\ ev.issued = 0

\* C11: the terminal state is sticky: once hasReachedLastPage() is true it
\* stays true until the response of an executeSearchQuery arrives (or the
\* page is loaded anew); no loadMoreData response and no failed request
\* makes it false.
C11_TerminalSticky ==
  [][(hasReachedLastPage(svc) /\ ~hasReachedLastPage(svc'))
       => ev'.op \in {"executeSearchQueryResponse", "pageReload"}]_vars

\* C12: a loadMoreData response that was requested for another query than
\* the one whose initial results were loaded last is handled like any
\* other: its items are appended to noteSummaries and its offset
\* overwrites the search offset.
C12_StaleResponseMutatesBuffer ==
  [][\A r \in InFlight("more") :
       (/\ ev'.op = "loadMoreDataResponse"
        /\ Receive(r)
        /\ r.query # svc._lastQuery)
         => LET data == fetchNoteSearchResultAsync(numPublished, r.query,
                                                   r.offset)
            IN /\ cmp'.noteSummaries =
                    cmp.noteSummaries \o data.noteSummariesList
               /\ svc'._searchOffset = data.searchOffset]_vars

\* C12 witness: the second page of query "a" arrived after the initial
\* results of query "b" (notes 3, 4, no further page) were loaded.
C12_Witness ==
  /\ ev.op = "loadMoreDataResponse"
  /\ svc._lastQuery = "b"
  /\ svc._searchOffset = 4
  /\ cmp.noteSummaries = <<3, 4, 3, 4>>

TitleMessages ==
  {TITLE_EMPTY, TITLE_INVALID_CHARS, TITLE_TOO_SHORT, TITLE_TOO_LONG}

\* The title messages among the issues, in order.
TitleIssues(issues) == SelectSeq(issues, LAMBDA m : m \in TitleMessages)

\* Does the message name a defect the title has.
Corresponds(m, title) ==
  \/ m = TITLE_EMPTY /\ title.len = 0
  \/ m = TITLE_INVALID_CHARS /\ title.len > 0 /\ ~title.allowedChars
  \/ m = TITLE_TOO_SHORT /\ title.len < 5
  \/ m = TITLE_TOO_LONG /\ title.len > 65

ValidTitle(title) ==
  title.len >= 5 /\ title.len <= 65 /\ title.allowedChars

\* C13: validate() reports no title issue for a title of length 5 to 65
\* that matches the title pattern (and nothing at all when the content is
\* not empty); for every other title it reports exactly one title message,
\* which names a defect the title has.
C13_TitleIssues ==
  note.validated =>
    LET ti == TitleIssues(note.issues)
    IN /\ ValidTitle(note._title) =>
            /\ ti = <<>>
            /\ note._content # "" => note.issues = <<>>
       /\ ~ValidTitle(note._title) =>
            /\ Len(ti) = 1
            /\ Corresponds(ti[1], note._title)

\* C13 witness: validate() was called on a title that is too long and has
\* disallowed characters, and reported one title message.
C13_Witness ==
  /\ note.validated
  /\ note._title.len > 65
  /\ ~note._title.allowedChars
  /\ note._content # ""
  /\ Len(note.issues) = 1

\* C14: validate() on a note with empty content reports the content issue
\* as the last issue, whatever the title; a note with content never gets
\* that issue.
C14_ContentIssueLast ==
  note.validated =>
    /\ note._content = "" =>
         /\ Len(note.issues) > 0
         /\ note.issues[Len(note.issues)] = CONTENT_EMPTY
    /\ note._content # "" =>
         \A i \in 1..Len(note.issues) : note.issues[i] # CONTENT_EMPTY

\* C14 witness: validate() was called on a note with empty content and a
\* title that is too short, and reported two issues.
C14_Witness ==
  /\ note.validated
  /\ note._content = ""
  /\ note._title.len \in 1..4
  /\ note._title.allowedChars
  /\ note.issues = <<TITLE_TOO_SHORT, CONTENT_EMPTY>>

\* C15: no update request, by saveDraft or by a confirmed publishNotePost,
\* is sent while validate() reports an issue for the note.
C15_NoUpdateWhileInvalid ==
  edEv.sent => edEv.issues = <<>>

\* C16: the change dict sent with an update of a note holds exactly the
\* fields that were set on that note since its last successful save, with
\* their latest values.
C16_ChangeDictIsWhatWasSet ==
  [][edEv'.sent =>
       \A f \in DOMAIN edEv'.changeDict :
         origin[f].note = edEv'.noteId /\ origin[f].state = "set"]_vars

\* C17: unpublishedNotesPost(s) for a summary s of the published list takes
\* s out of publishedNoteSummaryDicts, puts the same s in front of
\* draftNoteSummaryDicts, lowers numOfPublishedNotes by one and raises
\* numOfDraftNotes by one; the other summaries keep their places.
C17_UnpublishMovesSummary ==
  [][(/\ pageEv'.op = "unpublishedNotesPost"
      /\ InList(noteData.publishedNoteSummaryDicts, pageEv'.s))
     => /\ noteData'.publishedNoteSummaryDicts =
             SelectSeq(noteData.publishedNoteSummaryDicts,
                       LAMBDA x : x # pageEv'.s)
        /\ noteData'.draftNoteSummaryDicts =
             <<pageEv'.s>> \o noteData.draftNoteSummaryDicts
        /\ noteData'.numOfPublishedNotes = noteData.numOfPublishedNotes - 1
        /\ noteData'.numOfDraftNotes = noteData.numOfDraftNotes + 1
        /\ DOMAIN noteData' = DOMAIN noteData]_vars

\* A summary that stood between two others in the published list was
\* unpublished while the draft list already held another summary.
C17_Witness ==
  /\ pageEv.op = "unpublishedNotesPost"
  /\ pageEv.found
  /\ \E i \in 1..(Len(noteData.publishedNoteSummaryDicts) - 1) :
       /\ noteData.publishedNoteSummaryDicts[i] < pageEv.s
       /\ noteData.publishedNoteSummaryDicts[i + 1] > pageEv.s
  /\ Len(noteData.draftNoteSummaryDicts) >= 2
  /\ noteData.draftNoteSummaryDicts[1] = pageEv.s

\* C18: after navigateToEditorTabWithId(id) and the hashchange event it
\* causes activeTab is 'editor_tab'; after a hashchange with a hash that
\* is not an editor hash activeTab is 'main'; activeTab has no other value.
C18_TabStateMachine ==
  [][/\ nps'.activeTab \in {"main", "editor_tab"}
     /\ npsEv'.op = "hashchange" =>
          /\ npsEv'.cause = "navigateToEditorTabWithId" =>
               nps'.activeTab = "editor_tab"
          /\ ~startsWith(npsEv'.newHash, "#/notes_post_editor") =>
               nps'.activeTab = "main"]_vars

\* C19: when the delete succeeds the success message is added and
\* navigateToMainTab is called exactly if activeTab was 'editor_tab' then;
\* when it fails the warning is added and the page is not left.
C19_DeleteOutcome ==
  [][/\ npsEv'.op = "deleteSuccess" =>
          /\ npsEv'.alert = "Notes Post Deleted Successfully."
          /\ npsEv'.navigateToMainTab <=> nps.activeTab = "editor_tab"
          /\ npsEv'.navigateToMainTab =>
               win'.hash = NoHash /\ nps'.activeTab = "main"
          /\ ~npsEv'.navigateToMainTab => win' = win /\ nps' = nps
     /\ npsEv'.op = "deleteFailure" =>
          /\ npsEv'.alert = "Failed to delete notes post."
          /\ ~npsEv'.navigateToMainTab
          /\ win' = win /\ nps' = nps]_vars

\* A delete that was asked for in the editor succeeded after the user had
\* gone to another tab, so the page was not left.
C19_Witness ==
  /\ npsEv.op = "deleteSuccess"
  /\ ~npsEv.navigateToMainTab
  /\ nps.notesPostId # 0
  /\ win.hash = Hash("#/drafts", 0)

\* C20: while the task manager reports a running task, submitUpdateRoleForm
\* and submitRemoveEditorRoleForm send no request, neither start nor finish
\* a task and leave statusMessage and formData as they are.
C20_SubmitWhileTaskRunning ==
  [][(/\ adminEv'.op \in {"submitUpdateRoleForm",
                          "submitRemoveEditorRoleForm"}
      /\ taskRunning)
     => /\ adminRequests' = adminRequests
        /\ ~adminEv'.issued
        /\ ~adminEv'.startTask /\ ~adminEv'.finishTask
        /\ taskRunning' = taskRunning
        /\ admin'.statusMessage = admin.statusMessage
        /\ admin'.formData = admin.formData]_vars

\* The update role form was submitted with valid data while a task was
\* running and a request of the page was still in flight.
C20_Witness ==
  /\ adminEv.op = "submitUpdateRoleForm"
  /\ adminEv.returnedEarly
  /\ taskRunning
  /\ updateRoleIsValid(admin.formData.updateRole)
  /\ adminRequests # {}

\* C21: while the request of an executeSearchQuery is outstanding, every
\* loadMoreData call issues no backend request, whatever responses of
\* earlier loadMoreData requests arrive in between.
C21_NoLoadMoreWhileExecOutstanding ==
  [][(InFlight("exec") # {} /\ CalledLoadMoreData(cmp', ev'))
       => ev'.issued = 0]_vars

\* C22: after the home page has processed a search response, totalNotes is
\* noteSummaries.length + 1 exactly when hasReachedLastPage() is false and
\* noteSummaries.length otherwise.
C22_TotalNotesTellsMorePages ==
  [][ev'.op \in {"executeSearchQueryResponse", "loadMoreDataResponse"}
       => cmp'.totalNotes =
            IF hasReachedLastPage(svc')
              THEN Len(cmp'.noteSummaries)
              ELSE Len(cmp'.noteSummaries) + 1]_vars

\* C23: in the listing (no query was submitted), after any page changes and
\* responses, noteSummaries[i] is item i of the backend listing, and once
\* the page is loaded the window of page p shows the backend items
\* (p-1)*pageSize to p*pageSize-1.
C23_ListingBufferIsPrefix ==
  (initialized /\ ~cmp.searchPageIsActive /\ lastEmitted = NoNav) =>
    /\ \A i \in 1..Len(cmp.noteSummaries) :
         cmp.noteSummaries[i] = Listing(numPublished)[i]
    /\ (~cmp.showNoteCardsLoadingScreen /\ ~loader) =>
         cmp.noteSummariesToShow =
           Slice(Listing(numPublished),
                 (cmp.page - 1) * MAX_NUM_CARDS_TO_DISPLAY_ON_NOTE_HOMEPAGE,
                 cmp.page * MAX_NUM_CARDS_TO_DISPLAY_ON_NOTE_HOMEPAGE)

\* C24: every loading indicator of the note home page is cleared in the
\* end: the loading screen is hidden after it was shown, and
\* showNoteCardsLoadingScreen becomes false after loadPage set it.
C24_LoadingIndicatorsCleared ==
  /\ loader ~> ~loader
  /\ cmp.showNoteCardsLoadingScreen ~> ~cmp.showNoteCardsLoadingScreen

\* C25: the success callback of an executeSearchQuery call is invoked only
\* for a request that succeeded, so never for a call whose error callback
\* is invoked, and the search URL is pushed or navigated to only after a
\* successful search.
C25_SuccessCallbackOnlyOnSuccess ==
  [][/\ (ev'.successCallback /\ ev'.op # "loadMoreDataResponse")
          => ev'.op = "executeSearchQueryResponse"
     /\ ev'.nav # "none" => ev'.op = "executeSearchQueryResponse"]_vars

\* C26: a summary is taken out of the lists of the notes page only after
\* the backend confirmed the deletion: removeNotesPost never runs while
\* the delete request for the summary is unanswered, and when the request
\* fails the summary is still in a list.
C26_RemovedOnlyAfterConfirmation ==
  [][/\ pageEv'.op = "removeNotesPost" => pageEv'.s \notin tile'.deleting
     /\ pageEv'.op = "deleteFailure" =>
          \/ InList(noteData'.publishedNoteSummaryDicts, pageEv'.s)
          \/ InList(noteData'.draftNoteSummaryDicts, pageEv'.s)]_vars

\* C27: numOfPublishedNotes is the length of publishedNoteSummaryDicts and
\* numOfDraftNotes the length of draftNoteSummaryDicts after any sequence
\* of unpublishedNotesPost and removeNotesPost calls, and neither counter
\* is negative.
C27_CountersAreLengths ==
  /\ noteData.numOfPublishedNotes = Len(noteData.publishedNoteSummaryDicts)
  /\ noteData.numOfDraftNotes = Len(noteData.draftNoteSummaryDicts)
  /\ noteData.numOfPublishedNotes >= 0
  /\ noteData.numOfDraftNotes >= 0

\* C28: in the open editor, when the change dict holds an edit of the
\* note that no successful update has sent, newChangesAreMade is true and
\* the publish button is enabled; the button is disabled only when there
\* is no such edit and the last changes were published.
C28_UnsentEditsEnablePublish ==
  LET unsent == \E f \in DOMAIN origin :
                  origin[f].note = noteEd.noteId /\ origin[f].state # "saved"
  IN noteEd.phase = "ready" =>
       /\ unsent => (noteEd.newChangesAreMade
                       /\ ~isPublishButtonDisabled(noteEd))
       /\ isPublishButtonDisabled(noteEd) =>
            (~unsent /\ noteEd.lastChangesWerePublished)

\* C29: on the note admin page the task is running from the submission of
\* an action until its request is answered, so a submission in between is
\* rejected, and a task the page started, the one of
\* savePlatformParameters included, is eventually finished.
C29_TaskRunningWhileOutstanding ==
  /\ [][/\ adminEv'.issued => taskRunning'
        /\ (adminRequests # {} /\ adminEv'.op \in
               {"submitUpdateRoleForm", "submitRemoveEditorRoleForm",
                "savePlatformParameters"})
             => adminEv'.returnedEarly]_vars
  /\ adminEv.startTask ~> ~taskRunning

\* What an issue is about, whatever its wording.
KindOf(issue) ==
  IF issue = TITLE_EMPTY THEN "title_empty"
  ELSE IF issue = TITLE_INVALID_CHARS THEN "title_invalid_chars"
  ELSE IF issue = TITLE_TOO_SHORT THEN "title_too_short"
  ELSE IF issue \in {TITLE_TOO_LONG, TITLE_EXCEEDS} THEN "title_too_long"
  ELSE IF issue = CONTENT_EMPTY THEN "content_empty"
  ELSE "other"

\* C30: validate() and prepublishValidate(maxTags) accept and reject the
\* same notes: called on the same note, one returns no issue exactly when
\* the other returns none, and both return the same number of issues, of
\* the same kinds in the same order, whatever maxTags is.
C30_ValidateAgreesWithPrepublishValidate ==
  (note.validated /\ note.prepublishValidated) =>
    /\ (note.issues = <<>>) <=> (note.prepublishIssues = <<>>)
    /\ Len(note.issues) = Len(note.prepublishIssues)
    /\ \A i \in 1..Len(note.issues) :
         KindOf(note.issues[i]) = KindOf(note.prepublishIssues[i])

\* Both were called on a note with a title that is too long and no
\* content, with maxTags above zero, and both returned two issues, worded
\* differently.
C30_Witness ==
  /\ note.validated /\ note.prepublishValidated
  /\ note.maxTags > 0
  /\ note._title.len > MAX_CHARS_IN_NOTE_TITLE
  /\ note._title.allowedChars
  /\ note._content = ""
  /\ Len(note.prepublishIssues) = 2
  /\ note.issues # note.prepublishIssues

====
